---------------------------- MODULE Spec2Model ----------------------------
(***************************************************************************)
(* Model of seh-msft/generator: the identifier lookup (lookup), the        *)
(* request generation loop (generate) and the response validation          *)
(* (validate).                                                             *)
(*                                                                         *)
(* Strings that are compared, matched by a regular expression or           *)
(* substituted are sequences of one-character strings; names that are only *)
(* compared for equality (attribute names, parameter names, HTTP methods)  *)
(* are TLA+ strings.                                                       *)
(***************************************************************************)
EXTENDS Integers, Sequences, FiniteSets, TLC

\* ------------------------------------------------------------------------
\* Bounds of the model
\* ------------------------------------------------------------------------

\* Records declared for one identifier name in the database of the lookup runs.
MaxRecords == 2

\* Paths declared by the API of the generate runs.
MaxPaths == 2

\* Calls of generate on one API and database.
MaxRuns == 2

\* Request and response pairs handed to validate.
MaxPairs == 2

\* Tuples of one disallow or permit clause in the database of the clause runs.
MaxTuples == 2

\* ------------------------------------------------------------------------
\* Strings
\* ------------------------------------------------------------------------

\* The text of a name whose text is one character (value tokens, parameter names).
Chars(n) == <<n>>

\* Whether old occurs in s at position i.
HasPrefixAt(s, old, i) ==
    /\ i + Len(old) - 1 <= Len(s)
    /\ \A k \in 1..Len(old) : s[i + k - 1] = old[k]

RECURSIVE ReplaceFrom(_, _, _, _)
ReplaceFrom(s, old, new, i) ==
    IF i > Len(s) THEN <<>>
    ELSE IF HasPrefixAt(s, old, i)
         THEN new \o ReplaceFrom(s, old, new, i + Len(old))
         ELSE <<s[i]>> \o ReplaceFrom(s, old, new, i + 1)

\* strings.ReplaceAll for a non-empty old.
ReplaceAll(s, old, new) == ReplaceFrom(s, old, new, 1)

\* ------------------------------------------------------------------------
\* regexp: literals, '.', and the postfix '*', unanchored as MatchString is
\* ------------------------------------------------------------------------

\* regexp.Compile fails on a repetition operator with no argument and on a
\* nested repetition.
RegexCompiles(re) ==
    /\ ~(Len(re) >= 1 /\ re[1] = "*")
    /\ \A i \in 1..Len(re) : ~(i < Len(re) /\ re[i] = "*" /\ re[i + 1] = "*")

RECURSIVE MatchHere(_, _, _, _)
MatchHere(re, i, s, j) ==
    IF i > Len(re) THEN TRUE
    ELSE IF i < Len(re) /\ re[i + 1] = "*"
         THEN \E k \in j..(Len(s) + 1) :
                 /\ \A m \in j..(k - 1) : re[i] = "." \/ re[i] = s[m]
                 /\ MatchHere(re, i + 2, s, k)
         ELSE /\ j <= Len(s)
              /\ (re[i] = "." \/ re[i] = s[j])
              /\ MatchHere(re, i + 1, s, j + 1)

\* regex.MatchString(other) of a compiled pattern.
MatchString(re, s) == \E j \in 1..(Len(s) + 1) : MatchHere(re, 1, s, j)

\* ------------------------------------------------------------------------
\* cfg: a Cfg is its Records in file order, a Record its Tuples, a Tuple
\* its Attributes; the name of a Tuple or Record is its first Attribute's.
\* ------------------------------------------------------------------------

Attr(n, v) == [Name |-> n, Value |-> v]

TupleName(t) == t[1].Name
RecordName(r) == TupleName(r[1])

\* tuple.Map: is there an attribute called n in the tuple.
TupleHas(t, n) == \E i \in 1..Len(t) : t[i].Name = n

RECURSIVE SelectTuples(_, _)
\* record.Lookup(n): the tuples called n, in order (ok iff non-empty).
SelectTuples(r, n) ==
    IF r = <<>> THEN <<>>
    ELSE (IF TupleName(Head(r)) = n THEN <<Head(r)>> ELSE <<>>)
         \o SelectTuples(Tail(r), n)

RECURSIVE SelectRecords(_, _)
\* c.Lookup(n): the records called n, in order (ok iff non-empty).
SelectRecords(c, n) ==
    IF c = <<>> THEN <<>>
    ELSE (IF RecordName(Head(c)) = n THEN <<Head(c)>> ELSE <<>>)
         \o SelectRecords(Tail(c), n)

\* c.Map[rn][tn] exists: some record called rn holds a tuple called tn.
MapHasTuple(c, rn, tn) ==
    \E i \in 1..Len(c) : RecordName(c[i]) = rn /\ SelectTuples(c[i], tn) # <<>>

\* c.Map[rn][tn][an] exists.
MapHasAttr(c, rn, tn, an) ==
    \E i \in 1..Len(c) :
        /\ RecordName(c[i]) = rn
        /\ \E j \in 1..Len(c[i]) : TupleName(c[i][j]) = tn /\ TupleHas(c[i][j], an)

RECURSIVE AttrValues(_, _)
\* The non-empty values of the attributes called an of one tuple.
AttrValues(t, an) ==
    IF t = <<>> THEN <<>>
    ELSE (IF Head(t).Name = an /\ Head(t).Value # <<>> THEN <<Head(t).Value>> ELSE <<>>)
         \o AttrValues(Tail(t), an)

RECURSIVE TuplesValues(_, _, _)
TuplesValues(r, tn, an) ==
    IF r = <<>> THEN <<>>
    ELSE (IF TupleName(Head(r)) = tn THEN AttrValues(Head(r), an) ELSE <<>>)
         \o TuplesValues(Tail(r), tn, an)

RECURSIVE MapValues(_, _, _, _)
\* c.Map[rn][tn][an]: the values, over every record called rn.
MapValues(c, rn, tn, an) ==
    IF c = <<>> THEN <<>>
    ELSE (IF RecordName(Head(c)) = rn THEN TuplesValues(Head(c), tn, an) ELSE <<>>)
         \o MapValues(Tail(c), rn, tn, an)

\* ------------------------------------------------------------------------
\* lookup
\* ------------------------------------------------------------------------

RECURSIVE ScanAttributes(_, _, _, _, _)
\* The searchAttributes loop over the stripped attributes of one tuple:
\* "true", "false", or "fatal" when a pattern does not compile.
ScanAttributes(attributes, regexMode, path, title, result) ==
    IF attributes = <<>> THEN (IF result THEN "true" ELSE "false")
    ELSE LET attr == Head(attributes) IN
         IF attr.Name \notin {"title", "path"}
         THEN ScanAttributes(Tail(attributes), regexMode, path, title, result)
         ELSE LET test == IF attr.Name = "title" THEN title ELSE path IN
              IF regexMode /\ ~RegexCompiles(attr.Value) THEN "fatal"
              ELSE IF (IF regexMode THEN MatchString(attr.Value, test)
                                    ELSE attr.Value = test)
                   THEN ScanAttributes(Tail(attributes), regexMode, path, title, TRUE)
                   ELSE "false"

\* Mutant of MatchTuple: a tuple matches by default.
MatchTupleDefaultTrue(tuple, path, title) ==
    LET stripped  == IF Len(tuple) > 1 THEN Tail(tuple) ELSE tuple
        regexMode == Len(stripped) > 1 /\ TupleHas(tuple, "regex")
        attributes == IF regexMode THEN Tail(stripped) ELSE stripped
    IN  ScanAttributes(attributes, regexMode, path, title, TRUE)

\* One tuple of the match closure: strip the clause keyword, then 'regex'.
MatchTuple(tuple, path, title) ==
    LET stripped  == IF Len(tuple) > 1 THEN Tail(tuple) ELSE tuple
        regexMode == Len(stripped) > 1 /\ TupleHas(tuple, "regex")
        attributes == IF regexMode THEN Tail(stripped) ELSE stripped
    IN  ScanAttributes(attributes, regexMode, path, title, FALSE)

RECURSIVE Match(_, _, _)
\* The match closure: the first tuple that matches decides; a pattern that
\* does not compile in a tuple reached before that ends the process.
Match(tuples, path, title) ==
    IF tuples = <<>> THEN "false"
    ELSE LET r == MatchTuple(Head(tuples), path, title) IN
         IF r = "false" THEN Match(Tail(tuples), path, title) ELSE r

RECURSIVE ValueTokens(_)
\* The table of enumerated values of the 'values' tuples of a record.
ValueTokens(tuples) ==
    IF tuples = <<>> THEN <<>>
    ELSE LET attributes == Head(tuples) IN
         (IF Len(attributes) > 1
          THEN [k \in 1..(Len(attributes) - 1) |-> Chars(attributes[k + 1].Name)]
          ELSE <<>>)
         \o ValueTokens(Tail(tuples))

PrimaryValue(c, name) == MapValues(c, name, name, name)

HasFuzzProperty(c, name) ==
    MapHasTuple(c, name, "properties") /\ MapHasAttr(c, name, "properties", "fuzz")

\* The recordSearch loop's body once its two rule checks are evaluated: dis
\* is match(exceptions) (with ok), per is match(constraints) (or no permit).
\* The accumulator is [out, fuzz, fatal]; the result is the set of
\* accumulators the iteration can leave (one per random draw).
RecordBody(c, name, record, acc, dis, per) ==
    LET fuzz == acc.fuzz \/ HasFuzzProperty(c, name)
        vals == ValueTokens(SelectTuples(record, "values"))
        primaryValue == PrimaryValue(c, name)
    IN  IF dis = "fatal" THEN {[acc EXCEPT !.fatal = TRUE]}
        ELSE IF dis = "true" THEN {acc}
        ELSE IF per = "fatal" THEN {[acc EXCEPT !.fatal = TRUE]}
        ELSE IF per = "false" THEN {acc}
        ELSE IF Len(vals) > 0
             THEN IF fuzz
                  THEN {[acc EXCEPT !.fuzz = TRUE, !.out = acc.out \o <<vals[index]>>] :
                            index \in 1..Len(vals)}
                  ELSE {[acc EXCEPT !.out = acc.out \o vals]}
        ELSE IF ~fuzz /\ Len(primaryValue) > 0
             THEN {[acc EXCEPT !.out = acc.out \o primaryValue]}
        ELSE {[acc EXCEPT !.fuzz = fuzz]}

\* ok && match(exceptions)
DisallowMatch(record, path, title) ==
    LET exceptions == SelectTuples(record, "disallow") IN
    IF exceptions # <<>> THEN Match(exceptions, path, title) ELSE "false"

\* !(ok && !match(constraints))
PermitMatch(record, path, title) ==
    LET constraints == SelectTuples(record, "permit") IN
    IF constraints # <<>> THEN Match(constraints, path, title) ELSE "true"

\* Mutant of RecordStep: a matching permit tuple overrides the disallow clause.
RecordStepPermitWins(c, name, path, title, record, acc) ==
    LET per == PermitMatch(record, path, title)
        dis == DisallowMatch(record, path, title)
    IN  RecordBody(c, name, record, acc,
                   IF SelectTuples(record, "permit") # <<>> /\ per = "true"
                   THEN "false" ELSE dis,
                   per)

\* Mutant of RecordStep: a permit clause with no matching tuple is ignored.
RecordStepPermitIgnored(c, name, path, title, record, acc) ==
    LET per == PermitMatch(record, path, title) IN
    RecordBody(c, name, record, acc, DisallowMatch(record, path, title),
               IF per = "false" THEN "true" ELSE per)

\* One iteration of the recordSearch loop.  The permit clause is matched
\* only when the disallow clause did not exclude the record.
RecordStep(c, name, path, title, record, acc) ==
    LET dis == DisallowMatch(record, path, title) IN
    RecordBody(c, name, record, acc, dis,
               IF dis = "false" THEN PermitMatch(record, path, title) ELSE "true")

\* Mutant of LookupPrelude: no short circuit for an identifier without rules.
LookupPreludeNoShortCircuit(c, name) ==
    LET primaryValue == PrimaryValue(c, name)
        hasValue     == MapHasAttr(c, name, name, name) /\ Len(primaryValue) > 0
        hasEnums     == MapHasTuple(c, name, "values")
    IN  IF ~MapHasTuple(c, name, name) THEN [values |-> <<>>, r |-> "nothing"]
        ELSE IF ~hasValue /\ ~hasEnums THEN [values |-> <<>>, r |-> "nothing"]
        ELSE IF SelectRecords(c, name) = <<>> THEN [values |-> <<>>, r |-> "nothing"]
        ELSE [values |-> <<>>, r |-> "loop"]

\* The code of lookup before the recordSearch loop: "loop" when the loop is
\* entered, otherwise the result returned at once.
LookupPrelude(c, name) ==
    LET primaryValue == PrimaryValue(c, name)
        hasValue     == MapHasAttr(c, name, name, name) /\ Len(primaryValue) > 0
        hasDisallows == MapHasTuple(c, name, "disallow")
        hasPermits   == MapHasTuple(c, name, "permit")
        hasEnums     == MapHasTuple(c, name, "values")
    IN  IF ~MapHasTuple(c, name, name) THEN [values |-> <<>>, r |-> "nothing"]
        ELSE IF ~hasValue /\ ~hasEnums THEN [values |-> <<>>, r |-> "nothing"]
        ELSE IF ~hasDisallows /\ ~hasPermits /\ ~hasEnums /\ hasValue
             THEN [values |-> primaryValue, r |-> "something"]
        ELSE IF SelectRecords(c, name) = <<>> THEN [values |-> <<>>, r |-> "nothing"]
        ELSE [values |-> <<>>, r |-> "loop"]

\* The result lookup returns after the loop.
LookupResult(acc) ==
    [values |-> acc.out,
     r |-> IF acc.fuzz THEN "fuzzing"
           ELSE IF Len(acc.out) > 0 THEN "something" ELSE "nothing"]

RECURSIVE LookupLoop(_, _, _, _, _, _)
LookupLoop(c, name, path, title, records, acc) ==
    IF acc.fatal THEN {[values |-> <<>>, r |-> "fatal"]}
    ELSE IF records = <<>> THEN {LookupResult(acc)}
    ELSE UNION {LookupLoop(c, name, path, title, Tail(records), a) :
                    a \in RecordStep(c, name, path, title, Head(records), acc)}

\* lookup: every (values, Result) it can return; r = "fatal" when it ends
\* the process instead of returning.
Lookup(c, name, path, title) ==
    LET pre == LookupPrelude(c, name) IN
    IF pre.r # "loop" THEN {pre}
    ELSE LookupLoop(c, name, path, title, SelectRecords(c, name),
                    [out |-> <<>>, fuzz |-> FALSE, fatal |-> FALSE])

\* ------------------------------------------------------------------------
\* generate: one iteration of the loop over the methods of a path
\* ------------------------------------------------------------------------

\* A Go map as a function; the empty map.
EmptyMap == [x \in {} |-> <<>>]
MapPut(f, k, v) == [x \in DOMAIN f \cup {k} |-> IF x = k THEN v ELSE f[x]]

\* A schema reference: the text name, after "#/components/schemas/" or not.
Ref(prefixed, n) == [prefix |-> prefixed, name |-> n]
NoRef == Ref(FALSE, "")
\* strings.TrimPrefix(ref, "#/components/schemas/")
TrimPrefix(ref) == Ref(FALSE, ref.name)

\* fmt.Sprintf(`{%s}`, parameter.Name)
ApiForm(name) == <<"{">> \o Chars(name) \o <<"}">>

\* strings.ToLower of the parameter places of the model.
ToLower(in) ==
    CASE in = "Path" -> "path"
      [] in = "Query" -> "query"
      [] in = "Header" -> "header"
      [] OTHER -> in

\* The required parameters of a method that go to the place 'in', in order.
RECURSIVE Bucket(_, _)
Bucket(parameters, in) ==
    IF parameters = <<>> THEN <<>>
    ELSE (IF Head(parameters).Required /\ ToLower(Head(parameters).In) = in
          THEN <<Head(parameters).Name>> ELSE <<>>)
         \o Bucket(Tail(parameters), in)

RECURSIVE Resolve(_, _, _, _, _)
\* The loop over one bucket of parameters: lookup of each name in turn up
\* to the first that finds nothing.  k is "ok", "miss" (of name) or "fatal";
\* found lists the (name, first value) of every lookup that found something.
Resolve(c, names, path, title, found) ==
    IF names = <<>> THEN {[k |-> "ok", name |-> "", found |-> found]}
    ELSE UNION {
           IF o.r = "something"
           THEN Resolve(c, Tail(names), path, title,
                        Append(found, [name |-> Head(names), value |-> o.values[1]]))
           ELSE IF o.r = "fuzzing" THEN Resolve(c, Tail(names), path, title, found)
           ELSE IF o.r = "nothing" THEN {[k |-> "miss", name |-> Head(names), found |-> found]}
           ELSE {[k |-> "fatal", name |-> Head(names), found |-> found]} :
           o \in Lookup(c, Head(names), path, title)}

RECURSIVE Substitute(_, _)
\* fullPath after strings.ReplaceAll for every path parameter found.
Substitute(fullPath, found) ==
    IF found = <<>> THEN fullPath
    ELSE Substitute(ReplaceAll(fullPath, ApiForm(Head(found).name), Head(found).value),
                    Tail(found))

RECURSIVE PutAll(_, _)
\* A map after the assignment m[name] = value of every parameter found.
PutAll(m, found) ==
    IF found = <<>> THEN m
    ELSE PutAll(MapPut(m, Head(found).name, Head(found).value), Tail(found))

IsHex(ch) ==
    ch \in {"0", "1", "2", "3", "4", "5", "6", "7", "8", "9",
            "a", "b", "c", "d", "e", "f", "A", "B", "C", "D", "E", "F"}

\* http.NewRequest fails when the URL does not parse: a '%' that does not
\* start an escape of two hexadecimal digits.
NewRequestFails(fullPath) ==
    \E k \in 1..Len(fullPath) :
        /\ fullPath[k] = "%"
        /\ ~(k + 2 <= Len(fullPath) /\ IsHex(fullPath[k + 1]) /\ IsHex(fullPath[k + 2]))

DatePlaceholder == <<"00-00-0000">>
EmptyQuoted == <<"\"\"">>
EmptyArray == <<"[]">>
Zero == <<"0">>

\* randProperty: the values obj[name] can be left with (one per random draw).
\* For a string the date-time placeholder is assigned first and then
\* overwritten by the enumeration member or the empty quoted string.
RandProperty(property) ==
    IF property.Type = "string"
    THEN IF Len(property.Enums) > 0
         THEN {property.Enums[k] : k \in 1..Len(property.Enums)}
         ELSE {EmptyQuoted}
    ELSE IF property.Type = "array" THEN {EmptyArray}
    ELSE IF property.Type = "integer" THEN {Zero}
    ELSE {EmptyQuoted}

\* The types of the schema table the search loop can stop at: a type with a
\* property whose item reference is ref or refLess, or that is itself called
\* ref or refLess (and has a property at all).
Targets(schemas, ref) ==
    LET refLess == TrimPrefix(ref) IN
    {t \in schemas :
        \E property \in t.Properties :
            \/ property.Items = ref \/ property.Items = refLess
            \/ Ref(FALSE, t.Name) = ref \/ Ref(FALSE, t.Name) = refLess}

RECURSIVE FillObject(_, _, _, _, _)
\* The loop over target.Properties: every obj it can build, or "fatal".
FillObject(c, properties, path, title, obj) ==
    IF properties = {} THEN {[k |-> "ok", obj |-> obj]}
    ELSE LET property == CHOOSE x \in properties : TRUE IN
         UNION {
           IF o.r = "fatal" THEN {[k |-> "fatal", obj |-> obj]}
           ELSE IF o.r = "something"
                THEN FillObject(c, properties \ {property}, path, title,
                                MapPut(obj, property.Name, o.values[1]))
                ELSE UNION {FillObject(c, properties \ {property}, path, title,
                                       MapPut(obj, property.Name, v)) :
                                v \in RandProperty(property)} :
           o \in Lookup(c, property.Name, path, title)}

\* The names of the properties of the model's schemas in the order
\* encoding/json writes the keys of a map: sorted.
SortedKeys == <<"d", "e", "i", "n">>

RECURSIVE EncodeKeys(_, _)
EncodeKeys(obj, keys) ==
    IF keys = <<>> THEN <<>>
    ELSE (IF Head(keys) \in DOMAIN obj THEN <<<<Head(keys), obj[Head(keys)]>>>> ELSE <<>>)
         \o EncodeKeys(obj, Tail(keys))

\* enc.Encode(obj): the members of the JSON object, keys sorted.
EncodeJSON(obj) == [object |-> EncodeKeys(obj, SortedKeys)]

\* The body buffer left empty.
NoBody == [object |-> <<"none">>]

\* The body of a method: every buffer the code can build, or "fatal".
BuildBody(a, c, flags, path, method) ==
    IF ~(method.RequestBody.Required \/ flags.allBodies) THEN {[k |-> "ok", body |-> NoBody]}
    ELSE LET targets == Targets(a.Schemas, method.RequestBody.Ref) IN
         IF targets = {} THEN {[k |-> "ok", body |-> EncodeJSON(EmptyMap)]}
         ELSE UNION {
                {[k |-> f.k, body |-> EncodeJSON(f.obj)] :
                    f \in FillObject(c, target.Properties, path, a.Title, EmptyMap)} :
                target \in targets}

\* strings.ToUpper of the HTTP methods of the model.
ToUpper(httpMethod) ==
    CASE httpMethod = "get" -> "GET"
      [] httpMethod = "post" -> "POST"
      [] OTHER -> httpMethod

\* One iteration of the loop over the methods of a path, from the server
\* check on, with strict the value of *strict: the set of ways it can end.
\* k is
\*   "error"    return nil, nil, 0, err
\*   "fatal"    lookup ended the process
\*   "miss"     missing[name]++, failed[path] set, continue methods
\*   "failed"   http.NewRequest failed, failed[path] set, continue methods
\*   "request"  the request is appended
IterationWith(a, c, flags, path, httpMethod, method, strict) ==
    LET none == [k |-> "error", name |-> "", request |-> <<>>]
        end(kind, n) == [none EXCEPT !.k = kind, !.name = n]
        miss(n) == IF strict THEN end("error", n) ELSE end("miss", n)
    IN
    IF Len(a.Servers) < 1 THEN {none}
    ELSE UNION {
      IF ps.k = "fatal" THEN {end("fatal", ps.name)}
      ELSE IF ps.k = "miss" THEN {miss(ps.name)}
      ELSE LET fullPath == Substitute(flags.proto \o a.Servers[1] \o path, ps.found) IN
        UNION {
          IF b.k = "fatal" THEN {end("fatal", "")}
          ELSE IF NewRequestFails(fullPath)
               THEN {IF strict THEN end("error", "") ELSE end("failed", "")}
          ELSE UNION {
            IF qs.k = "fatal" THEN {end("fatal", qs.name)}
            ELSE IF qs.k = "miss" THEN {miss(qs.name)}
            ELSE {
              IF hs.k = "fatal" THEN end("fatal", hs.name)
              ELSE IF hs.k = "miss" THEN miss(hs.name)
              ELSE [k |-> "request", name |-> "",
                    request |-> [Method |-> ToUpper(httpMethod),
                                 URL |-> fullPath,
                                 Query |-> PutAll(EmptyMap, qs.found),
                                 Header |-> PutAll(EmptyMap, hs.found),
                                 Body |-> b.body]] :
              hs \in Resolve(c, Bucket(method.Parameters, "header"), path, a.Title, <<>>)} :
            qs \in Resolve(c, Bucket(method.Parameters, "query"), path, a.Title, <<>>)} :
          b \in BuildBody(a, c, flags, path, method)} :
      ps \in Resolve(c, Bucket(method.Parameters, "path"), path, a.Title, <<>>)}

\* Mutant of Iteration: *strict is not consulted.
IterationLenient(a, c, flags, path, httpMethod, method) ==
    IterationWith(a, c, flags, path, httpMethod, method, FALSE)

\* One iteration of the loop over the methods of a path under *strict.
Iteration(a, c, flags, path, httpMethod, method) ==
    IterationWith(a, c, flags, path, httpMethod, method, flags.strict)

\* ------------------------------------------------------------------------
\* State
\* ------------------------------------------------------------------------

VARIABLES
    lkDb,       \* lookup: the database c
    lkName,     \* lookup: name
    lkPath,     \* lookup: path
    lkTitle,    \* lookup: title
    lkPc,       \* lookup: "start", "loop", "done" (returned) or "fatal" (exited)
    lkIdx,      \* lookup: the records of the recordSearch loop already visited
    lkAcc,      \* lookup: out and fuzz
    lkRet       \* lookup: the (values, Result) returned

lkVars == <<lkDb, lkName, lkPath, lkTitle, lkPc, lkIdx, lkAcc, lkRet>>

VARIABLES
    api,            \* the parsed API; Paths and Methods hold the declared order
    db,             \* the database
    flags,          \* *strict, *allBodies, *proto, *noAuth
    gPc,            \* generate: "run", "done" (returned) or "fatal" (exited)
    pathsLeft,      \* the paths the outer range has not visited yet
    curPath,        \* the path of the outer loop (an index of api.Paths, 0: none)
    methodsLeft,    \* the methods of curPath the inner range has not visited yet
    methodVar,      \* per path, the method its loop variable 'method' holds
    requests,       \* requests
    missing,        \* missing
    failed,         \* failed
    totalPossible,  \* totalPossible
    gErr,           \* whether generate returned an error
    ended,          \* history: how the iteration of each (path, method) ended
    run,            \* the calls of generate so far on this api and db
    prevRequests    \* the HTTP requests the previous call returned

genVars == <<api, db, flags, gPc, pathsLeft, curPath, methodsLeft, methodVar,
             requests, missing, failed, totalPossible, gErr, ended, run,
             prevRequests>>

VARIABLES
    results,        \* validate: per request, the Responses of its Method and
                    \* the StatusCode of its response
    vPc,            \* validate: "run" or "done" (returned)
    resultsLeft,    \* validate: the requests the range has not visited yet
    sus,            \* validate: sus
    ok,             \* validate: ok
    vErr,           \* validate: whether it returned an error
    front,          \* the caller of validate: "cli" (main) or "http" (genHandler)
    ado,            \* *ado, opts.ADO
    output          \* what the caller wrote after validate

valVars == <<results, vPc, resultsLeft, sus, ok, vErr, front, ado, output>>

vars == <<lkVars, genVars, valVars>>

\* ------------------------------------------------------------------------
\* Inputs of the lookup runs
\* ------------------------------------------------------------------------

PathA == <<"/", "a">>
PathB == <<"/", "b">>
TitleT == <<"T">>
TitleU == <<"U">>

Keyword(n) == Attr(n, <<>>)

\* disallow path="/a"
DisallowLiteral == <<Keyword("disallow"), Attr("path", PathA)>>
\* disallow regex path="/.*"
DisallowRegex == <<Keyword("disallow"), Keyword("regex"), Attr("path", <<"/", ".", "*">>)>>
\* permit title="T"
PermitLiteral == <<Keyword("permit"), Attr("title", TitleT)>>
\* values x y
ValuesXY == <<Keyword("values"), Keyword("x"), Keyword("y")>>
\* properties fuzz
PropertiesFuzz == <<Keyword("properties"), Keyword("fuzz")>>

\* disallow regex path="*", a pattern regexp.Compile rejects
DisallowBadRegex == <<Keyword("disallow"), Keyword("regex"), Attr("path", <<"*">>)>>

DisallowChoices == {<<>>, <<DisallowLiteral>>, <<DisallowRegex>>, <<DisallowBadRegex>>}
PermitChoices == {<<>>, <<PermitLiteral>>}

\* What follows the rules of a record: the primary value and the clauses
\* 'values' and 'properties'.
BodyChoices ==
    {[primary |-> <<"v">>, rest |-> <<>>],
     [primary |-> <<>>,    rest |-> <<ValuesXY>>],
     [primary |-> <<"v">>, rest |-> <<PropertiesFuzz>>],
     [primary |-> <<>>,    rest |-> <<>>]}

\* The records of identifier n the lookup runs draw from.
RecordChoices(n) ==
    {<<<<Attr(n, b.primary)>>>> \o d \o p \o b.rest :
        d \in DisallowChoices, p \in PermitChoices, b \in BodyChoices}

\* The databases: up to MaxRecords records of the one identifier "i".
DbChoices ==
    UNION {[1..n -> RecordChoices("i")] : n \in 1..MaxRecords}

\* ------------------------------------------------------------------------
\* Inputs of the clause runs: one record of "i" with primary value "v" and
\* a disallow clause, a permit clause, or one tuple of each
\* ------------------------------------------------------------------------

\* kw title="T" title="U" path="/a"
TwoTitlesOnePath(kw) ==
    <<Keyword(kw), Attr("title", TitleT), Attr("title", TitleU), Attr("path", PathA)>>
\* kw path="/a"
OnePath(kw) == <<Keyword(kw), Attr("path", PathA)>>
\* kw title="T"
OneTitle(kw) == <<Keyword(kw), Attr("title", TitleT)>>
\* kw regex path="/.*"
RegexPath(kw) == <<Keyword(kw), Keyword("regex"), Attr("path", <<"/", ".", "*">>)>>
\* kw regex path="*"
BadRegexPath(kw) == <<Keyword(kw), Keyword("regex"), Attr("path", <<"*">>)>>
\* kw regex title="U" path="*"
TitleThenBadRegex(kw) ==
    <<Keyword(kw), Keyword("regex"), Attr("title", TitleU), Attr("path", <<"*">>)>>
\* kw regex foo="*" path="/a"
BadRegexUnderOtherName(kw) ==
    <<Keyword(kw), Keyword("regex"), Attr("foo", <<"*">>), Attr("path", PathA)>>
\* kw foo="x"
OtherName(kw) == <<Keyword(kw), Attr("foo", <<"x">>)>>
\* kw regex "A*", as the README writes a pattern with no attribute name
RegexNoName(kw) == <<Keyword(kw), Keyword("regex"), Keyword("A*")>>
\* kw
Bare(kw) == <<Keyword(kw)>>
\* kw title="T" foo="x" path="/b"
TitleOtherPath(kw) ==
    <<Keyword(kw), Attr("title", TitleT), Attr("foo", <<"x">>), Attr("path", PathB)>>

TupleChoices(kw) ==
    {TwoTitlesOnePath(kw), OnePath(kw), OneTitle(kw), RegexPath(kw), BadRegexPath(kw),
     TitleThenBadRegex(kw), BadRegexUnderOtherName(kw), OtherName(kw), RegexNoName(kw),
     Bare(kw), TitleOtherPath(kw)}

\* A clause: up to MaxTuples tuples of one keyword.
ClauseChoices(kw) == UNION {[1..n -> TupleChoices(kw)] : n \in 1..MaxTuples}

ClauseRecordChoices ==
    {<<<<Attr("i", <<"v">>)>>>> \o d : d \in ClauseChoices("disallow")}
    \cup {<<<<Attr("i", <<"v">>)>>>> \o p : p \in ClauseChoices("permit")}
    \cup {<<<<Attr("i", <<"v">>)>>, d, p>> :
              d \in TupleChoices("disallow"), p \in TupleChoices("permit")}

ClauseDbChoices == {<<record>> : record \in ClauseRecordChoices}

\* ------------------------------------------------------------------------
\* Inputs of the generate runs
\* ------------------------------------------------------------------------

Parameter(n, in, required) == [Name |-> n, In |-> in, Required |-> required]
Body(required, ref) == [Required |-> required, Ref |-> ref]
Property(n, type, format, enums, items) ==
    [Name |-> n, Type |-> type, Format |-> format, Enums |-> enums, Items |-> items]

\* /a/{i}
PathAI == <<"/", "a", "/", "{", "i", "}">>
\* /c/{i}/{q}
PathC == <<"/", "c", "/", "{", "i", "}", "/", "{", "q", "}">>

GetA ==
    [HTTPMethod |-> "get",
     Parameters |-> <<Parameter("i", "path", TRUE), Parameter("q", "query", TRUE)>>,
     RequestBody |-> Body(FALSE, NoRef),
     Responses |-> {"200", "404"}]
PostA ==
    [HTTPMethod |-> "post",
     Parameters |-> <<Parameter("h", "Header", TRUE), Parameter("i", "path", TRUE),
                      Parameter("q", "query", FALSE)>>,
     RequestBody |-> Body(TRUE, Ref(TRUE, "R")),
     Responses |-> {"201"}]
GetB ==
    [HTTPMethod |-> "get",
     Parameters |-> <<Parameter("q", "query", TRUE), Parameter("h", "header", TRUE)>>,
     RequestBody |-> Body(FALSE, NoRef),
     Responses |-> {"200"}]
PostB ==
    [HTTPMethod |-> "post",
     Parameters |-> <<Parameter("q", "cookie", TRUE)>>,
     RequestBody |-> Body(FALSE, NoRef),
     Responses |-> {"200", "default"}]
GetC ==
    [HTTPMethod |-> "get",
     Parameters |-> <<Parameter("i", "path", TRUE), Parameter("q", "path", TRUE)>>,
     RequestBody |-> Body(FALSE, NoRef),
     Responses |-> {"200"}]

\* The declarations of one path the runs draw from.
PathItems ==
    {[Path |-> PathAI, Methods |-> ms] : ms \in {<<GetA>>, <<PostA>>, <<GetA, PostA>>}}
    \cup {[Path |-> PathB, Methods |-> ms] : ms \in {<<GetB>>, <<PostB>>, <<GetB, PostB>>}}
    \cup {[Path |-> PathC, Methods |-> <<GetC>>]}

\* components.schemas: the type R the body of PostA refers to.
SchemaR ==
    [Name |-> "R",
     Properties |-> {Property("i", "string", "", <<>>, NoRef),
                     Property("d", "string", "date-time", <<>>, NoRef),
                     Property("e", "string", "", <<<<"m">>, <<"n">>>>, NoRef),
                     Property("n", "integer", "int32", <<>>, NoRef)}]

\* The APIs: up to MaxPaths paths, no path declared twice, one server or none.
ApiChoices ==
    {[Title |-> TitleT, Servers |-> servers, Paths |-> paths, Schemas |-> {SchemaR}] :
        servers \in {<<>>, <<<<"s">>>>},
        paths \in {ps \in UNION {[1..n -> PathItems] : n \in 1..MaxPaths} :
                      \A x, y \in 1..Len(ps) : x # y => ps[x].Path # ps[y].Path}}

\* The records of identifier "i" of the generate runs.
GenRecordsI ==
    {<<<<<<Attr("i", <<"v">>)>>>>>>,
     <<<<<<Attr("i", <<>>)>>>>>>,
     <<<<<<Attr("i", <<"%">>)>>>>>>,
     <<<<<<Attr("i", <<"v">>)>>, <<Keyword("disallow"), Attr("path", PathAI)>>>>>>,
     <<<<<<Attr("i", <<>>)>>, ValuesXY, PropertiesFuzz>>>>,
     <<<<<<Attr("i", <<"v">>)>>, DisallowBadRegex>>>>}

\* The records of identifiers "q" and "h" of the generate runs.
GenRecordsQH ==
    {<<<<<<Attr("q", <<"w">>)>>>>, <<<<Attr("h", <<"x">>)>>>>>>,
     <<<<<<Attr("h", <<"x">>)>>>>>>,
     <<<<<<Attr("q", <<"w">>)>>>>>>}

GenDbChoices == {ri \o rqh : ri \in GenRecordsI, rqh \in GenRecordsQH}

\* The flags of the generate runs; the database is used as it is read
\* (-noauth).
FlagChoices ==
    {[strict |-> st, allBodies |-> ab, proto |-> <<"https">>, noAuth |-> TRUE] :
        st \in BOOLEAN, ab \in BOOLEAN}

\* ------------------------------------------------------------------------
\* Inputs of the authorization runs: header parameters called Authorization
\* and Cookie, rules for them in the database, with and without -noauth
\* ------------------------------------------------------------------------

GetAuth ==
    [HTTPMethod |-> "get",
     Parameters |-> <<Parameter("Authorization", "header", TRUE)>>,
     RequestBody |-> Body(FALSE, NoRef),
     Responses |-> {"200"}]
PostCookie ==
    [HTTPMethod |-> "post",
     Parameters |-> <<Parameter("Cookie", "header", TRUE)>>,
     RequestBody |-> Body(FALSE, NoRef),
     Responses |-> {"200"}]

AuthPathItems ==
    {[Path |-> path, Methods |-> ms] :
        path \in {PathA, PathB}, ms \in {<<GetAuth>>, <<PostCookie>>, <<GetAuth, PostCookie>>}}

AuthApiChoices ==
    {[Title |-> TitleT, Servers |-> <<<<"s">>>>, Paths |-> paths, Schemas |-> {}] :
        paths \in {ps \in UNION {[1..n -> AuthPathItems] : n \in 1..MaxPaths} :
                      \A x, y \in 1..Len(ps) : x # y => ps[x].Path # ps[y].Path}}

\* The database files: Authorization="z", Cookie="c", both or neither.
AuthRules ==
    {<<>>,
     <<<<<<Attr("Authorization", <<"z">>)>>>>>>,
     <<<<<<Attr("Cookie", <<"c">>)>>>>>>,
     <<<<<<Attr("Authorization", <<"z">>)>>>>, <<<<Attr("Cookie", <<"c">>)>>>>>>}

\* main and genHandler: without -noauth a record Authorization="Bearer "+auth
\* is appended to the records read; with it the records are left as read.
InsertAuthorization(records, noAuth, auth) ==
    IF ~noAuth THEN Append(records, <<<<Attr("Authorization", <<"Bearer ">> \o auth)>>>>)
    ELSE records

AuthFlagChoices ==
    {[strict |-> st, allBodies |-> FALSE, proto |-> <<"https">>, noAuth |-> na] :
        st \in BOOLEAN, na \in BOOLEAN}

\* ------------------------------------------------------------------------
\* generate
\* ------------------------------------------------------------------------

\* The generate variables of a run that never calls generate.
GenIdle ==
    /\ api = [Title |-> TitleT, Servers |-> <<>>, Paths |-> <<>>, Schemas |-> {}]
    /\ db = <<>>
    /\ flags = [strict |-> FALSE, allBodies |-> FALSE, proto |-> <<"https">>,
                noAuth |-> FALSE]
    /\ gPc = "idle"
    /\ pathsLeft = {}
    /\ curPath = 0
    /\ methodsLeft = {}
    /\ methodVar = EmptyMap
    /\ requests = <<>>
    /\ missing = EmptyMap
    /\ failed = {}
    /\ totalPossible = 0
    /\ gErr = FALSE
    /\ ended = EmptyMap
    /\ run = 0
    /\ prevRequests = <<>>

\* The lookup variables of a run that steps through no lookup.
LkIdle ==
    /\ lkDb = <<>>
    /\ lkName = ""
    /\ lkPath = <<>>
    /\ lkTitle = <<>>
    /\ lkPc = "idle"
    /\ lkIdx = 0
    /\ lkAcc = [out |-> <<>>, fuzz |-> FALSE, fatal |-> FALSE]
    /\ lkRet = [values |-> <<>>, r |-> "none"]

\* The validate variables of a run that never calls validate.
ValIdle ==
    /\ results = EmptyMap
    /\ vPc = "idle"
    /\ resultsLeft = {}
    /\ sus = <<>>
    /\ ok = <<>>
    /\ vErr = FALSE
    /\ front = "cli"
    /\ ado = FALSE
    /\ output = [kind |-> "none", sus |-> <<>>, ok |-> <<>>]

\* The locals of generate at its entry.
GenEntry ==
    /\ gPc = "run"
    /\ pathsLeft = 1..Len(api.Paths)
    /\ curPath = 0
    /\ methodsLeft = {}
    /\ methodVar = EmptyMap
    /\ requests = <<>>
    /\ missing = EmptyMap
    /\ failed = {}
    /\ totalPossible = 0
    /\ gErr = FALSE
    /\ ended = EmptyMap

Init ==
    /\ LkIdle
    /\ ValIdle
    /\ api \in ApiChoices
    /\ db \in GenDbChoices
    /\ flags \in FlagChoices
    /\ GenEntry
    /\ run = 1
    /\ prevRequests = <<>>

\* Mutant of Increment: the count is set, not added to.
IncrementForgets(m, name) == MapPut(m, name, 1)

\* missing[name]++
Increment(m, name) == MapPut(m, name, IF name \in DOMAIN m THEN m[name] + 1 ELSE 1)

\* Mutant of NextMissing: a failed http.NewRequest is counted as a miss.
NextMissingCountsFailed(m, e) ==
    CASE e.k = "error" -> EmptyMap
      [] e.k \in {"miss", "failed"} -> Increment(m, e.name)
      [] OTHER -> m

\* missing after an iteration that ended as e: the parameter whose lookup
\* found nothing is counted; a return with an error returns nil.
NextMissing(m, e) ==
    CASE e.k = "error" -> EmptyMap
      [] e.k = "miss" -> Increment(m, e.name)
      [] OTHER -> m

\* Mutant of NextTotal: totalPossible is counted where the request is appended.
NextTotalOnAppend(total, e) ==
    IF e.k = "error" THEN 0 ELSE IF e.k = "request" THEN total + 1 ELSE total

\* totalPossible after an iteration that ended as e: totalPossible++ opens
\* the iteration; a return with an error returns 0.
NextTotal(total, e) == IF e.k = "error" THEN 0 ELSE total + 1

\* Mutant of NextRequests: a failed http.NewRequest does not end the iteration.
NextRequestsNoContinue(reqs, e, p, m) ==
    IF e.k = "error" THEN <<>>
    ELSE IF e.k \in {"request", "failed"}
         THEN Append(reqs, [HTTP |-> e.request, Method |-> p, op |-> <<p, m>>])
         ELSE reqs

\* requests after an iteration on method m of path p that ended as e.  An
\* appended request holds the address of the loop variable of p; op is
\* history, the (path, method) it was built from.
NextRequests(reqs, e, p, m) ==
    IF e.k = "error" THEN <<>>
    ELSE IF e.k = "request"
         THEN Append(reqs, [HTTP |-> e.request, Method |-> p, op |-> <<p, m>>])
         ELSE reqs

\* One iteration of the loop over the methods of a path.  Both loops range
\* over Go maps: the next path and the next method are any not yet visited.
\* The loop variable 'method' of the path takes the method's value, and a
\* request appended holds its address.
GenIterate ==
    /\ gPc = "run"
    /\ \E p \in (IF methodsLeft # {} THEN {curPath} ELSE pathsLeft) :
       \E m \in (IF methodsLeft # {} THEN methodsLeft ELSE 1..Len(api.Paths[p].Methods)) :
       \E e \in Iteration(api, db, flags, api.Paths[p].Path,
                          api.Paths[p].Methods[m].HTTPMethod, api.Paths[p].Methods[m]) :
          /\ curPath' = p
          /\ pathsLeft' = pathsLeft \ {p}
          /\ methodsLeft' = (IF methodsLeft # {} THEN methodsLeft
                                                ELSE 1..Len(api.Paths[p].Methods)) \ {m}
          /\ methodVar' = MapPut(methodVar, p, m)
          /\ gPc' = CASE e.k = "error" -> "done"
                      [] e.k = "fatal" -> "fatal"
                      [] OTHER -> "run"
          /\ gErr' = (e.k = "error")
          /\ requests' = NextRequests(requests, e, p, m)
          /\ missing' = NextMissing(missing, e)
          /\ totalPossible' = NextTotal(totalPossible, e)
          /\ failed' = IF e.k \in {"miss", "failed"}
                       THEN failed \cup {api.Paths[p].Path} ELSE failed
          /\ ended' = MapPut(ended, <<p, m>>, [k |-> e.k, name |-> e.name])
    /\ UNCHANGED <<lkVars, valVars, api, db, flags, run, prevRequests>>

\* Both loops are over: return requests, missing, totalPossible, nil.
GenReturn ==
    /\ gPc = "run"
    /\ pathsLeft = {}
    /\ methodsLeft = {}
    /\ gPc' = "done"
    /\ UNCHANGED <<lkVars, valVars, api, db, flags, pathsLeft, curPath, methodsLeft, methodVar,
                   requests, missing, failed, totalPossible, gErr, ended, run,
                   prevRequests>>

Next == GenIterate \/ GenReturn

Spec == Init /\ [][Next]_vars

\* The HTTP requests of a result of generate.
HTTPRequests(reqs) == [k \in 1..Len(reqs) |-> reqs[k].HTTP]

\* generate is called again on the same api and db, as the listener does
\* for every POST it serves.
RunAgain ==
    /\ gPc = "done"
    /\ ~gErr
    /\ run < MaxRuns
    /\ run' = run + 1
    /\ prevRequests' = HTTPRequests(requests)
    /\ gPc' = "run"
    /\ pathsLeft' = 1..Len(api.Paths)
    /\ curPath' = 0
    /\ methodsLeft' = {}
    /\ methodVar' = EmptyMap
    /\ requests' = <<>>
    /\ missing' = EmptyMap
    /\ failed' = {}
    /\ totalPossible' = 0
    /\ gErr' = FALSE
    /\ ended' = EmptyMap
    /\ UNCHANGED <<lkVars, valVars, api, db, flags>>

\* Repeated calls: non-strict, a server configured.
InitTwice == Init /\ ~flags.strict /\ ~flags.allBodies /\ Len(api.Servers) >= 1

NextTwice == GenIterate \/ GenReturn \/ RunAgain

SpecTwice == InitTwice /\ [][NextTwice]_vars

\* The authorization runs: main up to the call of generate, then generate.
InitAuth ==
    /\ LkIdle
    /\ ValIdle
    /\ api \in AuthApiChoices
    /\ flags \in AuthFlagChoices
    /\ \E records \in AuthRules : db = InsertAuthorization(records, flags.noAuth, <<"t">>)
    /\ GenEntry
    /\ run = 1
    /\ prevRequests = <<>>

SpecAuth == InitAuth /\ [][Next]_vars

\* ------------------------------------------------------------------------
\* validate
\* ------------------------------------------------------------------------

Digits == <<"0", "1", "2", "3", "4", "5", "6", "7", "8", "9">>
IsDigit(ch) == \E d \in 1..Len(Digits) : Digits[d] = ch
DigitValue(ch) == (CHOOSE d \in 1..Len(Digits) : Digits[d] = ch) - 1

RECURSIVE DigitsValue(_, _)
DigitsValue(str, acc) ==
    IF str = <<>> THEN acc
    ELSE DigitsValue(Tail(str), acc * 10 + DigitValue(Head(str)))

\* strconv.Atoi of a short string: an optional sign, then digits only.
Atoi(str) ==
    LET signed == Len(str) >= 1 /\ str[1] \in {"+", "-"}
        digits == IF signed THEN Tail(str) ELSE str
    IN  IF digits = <<>> \/ \E k \in 1..Len(digits) : ~IsDigit(digits[k])
        THEN [err |-> TRUE, n |-> 0]
        ELSE [err |-> FALSE,
              n |-> IF signed /\ str[1] = "-" THEN 0 - DigitsValue(digits, 0)
                                              ELSE DigitsValue(digits, 0)]

\* Mutant of Suspicious: the comparison is inverted.
SuspiciousInverted(eint, statusCode) == eint # statusCode

\* eint == response.StatusCode
Suspicious(eint, statusCode) == eint = statusCode

RECURSIVE Compare(_, _, _, _)
\* The loop over request.Method.Responses in the order 'expected': the
\* buckets after it, or err at the first code that does not parse.
Compare(expected, pair, statusCode, buckets) ==
    IF expected = <<>> THEN buckets
    ELSE LET e == Atoi(Head(expected)) IN
         IF e.err THEN [err |-> TRUE, sus |-> <<>>, ok |-> <<>>]
         ELSE IF Suspicious(e.n, statusCode)
              THEN Compare(Tail(expected), pair, statusCode,
                           [buckets EXCEPT !.sus = Append(buckets.sus, pair)])
              ELSE Compare(Tail(expected), pair, statusCode,
                           [buckets EXCEPT !.ok = Append(buckets.ok, pair)])

\* The orders a range over the keys of a Go map can take.
Orders(keys) ==
    {f \in [1..Cardinality(keys) -> keys] :
        \A x, y \in 1..Cardinality(keys) : x # y => f[x] # f[y]}

Code200 == <<"2", "0", "0">>
Code201 == <<"2", "0", "1">>
Code404 == <<"4", "0", "4">>
CodeDefault == <<"d", "e", "f", "a", "u", "l", "t">>

\* The Responses of a Method and the status codes of a reply the runs draw from.
ResponsesChoices == {{Code200, Code404}, {Code200}, {Code201}, {Code200, CodeDefault}, {}}
StatusChoices == {200, 403, 404}

ValInit ==
    /\ LkIdle
    /\ GenIdle
    /\ results \in UNION {[1..n -> [Responses : ResponsesChoices, StatusCode : StatusChoices]] :
                             n \in 0..MaxPairs}
    /\ vPc = "run"
    /\ resultsLeft = DOMAIN results
    /\ sus = <<>>
    /\ ok = <<>>
    /\ vErr = FALSE
    /\ front \in {"cli", "http"}
    /\ ado \in BOOLEAN
    /\ output = [kind |-> "none", sus |-> <<>>, ok |-> <<>>]

\* One iteration of the range over results: any request not yet visited,
\* its declared codes in any order.
ValidatePair ==
    /\ vPc = "run"
    /\ \E request \in resultsLeft :
       \E expected \in Orders(results[request].Responses) :
          LET b == Compare(expected,
                           [Request |-> request, Response |-> results[request].StatusCode],
                           results[request].StatusCode,
                           [err |-> FALSE, sus |-> sus, ok |-> ok])
          IN  /\ sus' = b.sus
              /\ ok' = b.ok
              /\ vErr' = b.err
              /\ vPc' = IF b.err THEN "done" ELSE "run"
              /\ resultsLeft' = resultsLeft \ {request}
    /\ UNCHANGED <<lkVars, genVars, results, front, ado, output>>

\* return sus, ok, nil
ValidateReturn ==
    /\ vPc = "run"
    /\ resultsLeft = {}
    /\ vPc' = "done"
    /\ UNCHANGED <<lkVars, genVars, results, resultsLeft, sus, ok, vErr, front, ado,
                   output>>

\* printJSON and printADO: both read requests[0].Host first, which panics
\* when there is no request; then they write the two buckets.
PrintOutput(kind, nRequests, s, o) ==
    IF nRequests = 0 THEN [kind |-> "panic", sus |-> <<>>, ok |-> <<>>]
    ELSE [kind |-> kind, sus |-> s, ok |-> o]

\* main after validate: err is assigned and not read before printADO or
\* printJSON is called.
MainOutput ==
    /\ vPc = "done"
    /\ front = "cli"
    /\ output.kind = "none"
    /\ output' = PrintOutput(IF ado THEN "ado" ELSE "json",
                             Cardinality(DOMAIN results), sus, ok)
    /\ UNCHANGED <<lkVars, genVars, results, vPc, resultsLeft, sus, ok, vErr, front, ado>>

\* genHandler after validate: an error is answered with status 500.
HandlerOutput ==
    /\ vPc = "done"
    /\ front = "http"
    /\ output.kind = "none"
    /\ output' = IF vErr THEN [kind |-> "error", sus |-> <<>>, ok |-> <<>>]
                 ELSE PrintOutput(IF ado THEN "ado" ELSE "json",
                                  Cardinality(DOMAIN results), sus, ok)
    /\ UNCHANGED <<lkVars, genVars, results, vPc, resultsLeft, sus, ok, vErr, front, ado>>

ValNext == ValidatePair \/ ValidateReturn \/ MainOutput \/ HandlerOutput

SpecValidate == ValInit /\ [][ValNext]_vars

\* ------------------------------------------------------------------------
\* The whole run: generate, replay of every request, validate, output
\* ------------------------------------------------------------------------

\* The text of a declared response code.
CodeText(code) ==
    CASE code = "200" -> Code200
      [] code = "201" -> Code201
      [] code = "404" -> Code404
      [] OTHER -> CodeDefault

\* The databases of the whole runs: every parameter found; no i and no q;
\* no h.
RunDbChoices ==
    {<<<<<<Attr("i", <<"v">>)>>>>, <<<<Attr("q", <<"w">>)>>>>, <<<<Attr("h", <<"x">>)>>>>>>,
     <<<<<<Attr("i", <<>>)>>>>, <<<<Attr("h", <<"x">>)>>>>>>,
     <<<<<<Attr("i", <<"v">>)>>>>, <<<<Attr("q", <<"w">>)>>>>>>}

\* main, or genHandler, calls generate: non-strict, a server configured,
\* replay enabled.
InitRun ==
    /\ LkIdle
    /\ api \in {a \in ApiChoices : Len(a.Servers) >= 1}
    /\ db \in RunDbChoices
    /\ flags = [strict |-> FALSE, allBodies |-> FALSE, proto |-> <<"https">>,
                noAuth |-> TRUE]
    /\ GenEntry
    /\ run = 1
    /\ prevRequests = <<>>
    /\ results = EmptyMap
    /\ vPc = "idle"
    /\ resultsLeft = {}
    /\ sus = <<>>
    /\ ok = <<>>
    /\ vErr = FALSE
    /\ front \in {"cli", "http"}
    /\ ado \in BOOLEAN
    /\ output = [kind |-> "none", sus |-> <<>>, ok |-> <<>>]

\* The replay loop and the call of validate: every request gets the
\* response of the server, which answers all of them with one status here;
\* the declared responses are read through the request's Method.
Replay ==
    /\ gPc = "done"
    /\ ~gErr
    /\ vPc = "idle"
    /\ \E status \in StatusChoices :
          results' = [k \in 1..Len(requests) |->
                         [Responses |->
                              {CodeText(code) :
                                  code \in api.Paths[requests[k].Method]
                                              .Methods[methodVar[requests[k].Method]].Responses},
                          StatusCode |-> status]]
    /\ resultsLeft' = 1..Len(requests)
    /\ vPc' = "run"
    /\ UNCHANGED <<lkVars, genVars, sus, ok, vErr, front, ado, output>>

NextRun ==
    GenIterate \/ GenReturn \/ Replay \/ ValidatePair \/ ValidateReturn \/ MainOutput
        \/ HandlerOutput

SpecRun == InitRun /\ [][NextRun]_vars

\* ------------------------------------------------------------------------
\* The lookup runs: lookup one step of the recordSearch loop at a time
\* ------------------------------------------------------------------------

LkInit ==
    /\ lkDb \in DbChoices
    /\ lkName \in {"i", "j"}
    /\ lkPath \in {PathA, PathB}
    /\ lkTitle \in {TitleT, TitleU}
    /\ lkPc = "start"
    /\ lkIdx = 0
    /\ lkAcc = [out |-> <<>>, fuzz |-> FALSE, fatal |-> FALSE]
    /\ lkRet = [values |-> <<>>, r |-> "none"]
    /\ GenIdle
    /\ ValIdle

\* lookup up to the recordSearch loop.
LkStart ==
    /\ lkPc = "start"
    /\ LET pre == LookupPrelude(lkDb, lkName) IN
       /\ lkPc' = IF pre.r = "loop" THEN "loop" ELSE "done"
       /\ lkRet' = IF pre.r = "loop" THEN lkRet ELSE pre
    /\ UNCHANGED <<lkDb, lkName, lkPath, lkTitle, lkIdx, lkAcc, genVars, valVars>>

\* One iteration of the recordSearch loop.
LkRecord ==
    /\ lkPc = "loop"
    /\ lkIdx < Len(SelectRecords(lkDb, lkName))
    /\ \E acc \in RecordStep(lkDb, lkName, lkPath, lkTitle,
                              SelectRecords(lkDb, lkName)[lkIdx + 1], lkAcc) :
          /\ lkAcc' = acc
          /\ lkPc' = IF acc.fatal THEN "fatal" ELSE "loop"
    /\ lkIdx' = lkIdx + 1
    /\ UNCHANGED <<lkDb, lkName, lkPath, lkTitle, lkRet, genVars, valVars>>

\* The end of lookup after the loop.
LkReturn ==
    /\ lkPc = "loop"
    /\ lkIdx = Len(SelectRecords(lkDb, lkName))
    /\ lkRet' = LookupResult(lkAcc)
    /\ lkPc' = "done"
    /\ UNCHANGED <<lkDb, lkName, lkPath, lkTitle, lkIdx, lkAcc, genVars, valVars>>

LkNext == LkStart \/ LkRecord \/ LkReturn

SpecLookup == LkInit /\ [][LkNext]_vars

\* The clause runs: lookup of "i" in a database of one record.
LkInitClause ==
    /\ lkDb \in ClauseDbChoices
    /\ lkName = "i"
    /\ lkPath \in {PathA, PathB}
    /\ lkTitle \in {TitleT, TitleU}
    /\ lkPc = "start"
    /\ lkIdx = 0
    /\ lkAcc = [out |-> <<>>, fuzz |-> FALSE, fatal |-> FALSE]
    /\ lkRet = [values |-> <<>>, r |-> "none"]
    /\ GenIdle
    /\ ValIdle

SpecClause == LkInitClause /\ [][LkNext]_vars

\* ------------------------------------------------------------------------
\* Claims about lookup
\* ------------------------------------------------------------------------

\* The record the recordSearch loop evaluates next, and the one it evaluated last.
LkRecords == SelectRecords(lkDb, lkName)
LkAtRecord == lkPc = "loop" /\ lkIdx < Len(LkRecords)
LkNextRecord == LkRecords[lkIdx + 1]
LkLastRecord == LkRecords[lkIdx]

LkUnconstrained ==
    /\ LkRecords # <<>>
    /\ \A k \in 1..Len(LkRecords) : \A t \in 1..Len(LkRecords[k]) :
           TupleName(LkRecords[k][t]) \notin {"disallow", "permit", "values"}

RuleTuples(record) == SelectTuples(record, "disallow") \o SelectTuples(record, "permit")

\* A regex-qualified tuple one of whose attribute values is not a pattern.
InvalidPattern(tuple) ==
    TupleHas(tuple, "regex") /\ \E k \in 1..Len(tuple) : ~RegexCompiles(tuple[k].Value)

\* C12 as claimed: once the loop has evaluated a record with a
\* regex-qualified disallow or permit tuple that holds an invalid pattern,
\* lookup has ended the process; it never goes on as if the tuple did not
\* match.
C12_InvalidPatternIsFatal ==
    \A k \in 1..lkIdx :
        (\E t \in 1..Len(RuleTuples(LkRecords[k])) : InvalidPattern(RuleTuples(LkRecords[k])[t]))
            => lkPc = "fatal"

\* C14 as claimed: a tuple with the titles T and U and the path /a matches
\* the contexts (T, /a) and (U, /a): alone in a permit clause it lets the
\* record give its value, alone in a disallow clause it excludes the record.
C14_TwoTitlesOnePath ==
    (lkIdx = 1 /\ lkPath = PathA /\ lkTitle \in {TitleT, TitleU}) =>
        /\ Tail(LkRecords[1]) = <<TwoTitlesOnePath("permit")>>
              => (lkPc # "fatal" /\ lkAcc.out = <<<<"v">>>>)
        /\ Tail(LkRecords[1]) = <<TwoTitlesOnePath("disallow")>>
              => (lkPc # "fatal" /\ lkAcc.out = <<>>)

\* The attributes of a tuple the match closure scans, and whether it
\* compares them as patterns.
RegexQualified(tuple) == Len(tuple) > 2 /\ TupleHas(tuple, "regex")
Scanned(tuple) ==
    IF RegexQualified(tuple) THEN Tail(Tail(tuple))
    ELSE IF Len(tuple) > 1 THEN Tail(tuple) ELSE tuple
\* The positions of the title and path attributes among them.
Comparisons(tuple) ==
    {k \in 1..Len(Scanned(tuple)) : Scanned(tuple)[k].Name \in {"title", "path"}}
ComparisonCompiles(tuple, k) ==
    RegexQualified(tuple) => RegexCompiles(Scanned(tuple)[k].Value)
ComparisonHolds(tuple, k, path, title) ==
    LET test == IF Scanned(tuple)[k].Name = "title" THEN title ELSE path IN
    /\ ComparisonCompiles(tuple, k)
    /\ IF RegexQualified(tuple) THEN MatchString(Scanned(tuple)[k].Value, test)
                                ELSE Scanned(tuple)[k].Value = test

\* What the scan of a tuple comes to: "fatal" when a comparison that every
\* earlier one leads to has a pattern that does not compile, "true" when no
\* comparison fails (and, unless vacuous, one is made), else "false".
TupleSays(tuple, path, title, vacuous) ==
    IF \E k \in Comparisons(tuple) :
          /\ ~ComparisonCompiles(tuple, k)
          /\ \A j \in Comparisons(tuple) : j < k => ComparisonHolds(tuple, j, path, title)
    THEN "fatal"
    ELSE IF /\ (vacuous \/ Comparisons(tuple) # {})
            /\ \A k \in Comparisons(tuple) : ComparisonHolds(tuple, k, path, title)
         THEN "true" ELSE "false"

\* What a clause comes to: its first tuple that does not say "false" decides.
ClauseSays(tuples, path, title, vacuous) ==
    IF \E k \in 1..Len(tuples) : TupleSays(tuples[k], path, title, vacuous) # "false"
    THEN TupleSays(tuples[CHOOSE k \in 1..Len(tuples) :
                              /\ TupleSays(tuples[k], path, title, vacuous) # "false"
                              /\ \A j \in 1..(k - 1) :
                                    TupleSays(tuples[j], path, title, vacuous) = "false"],
                   path, title, vacuous)
    ELSE "false"

\* The record the loop evaluated is excluded when its disallow clause
\* matches, out of scope when it has a permit clause that does not, and
\* gives its value otherwise.
RecordFollowsClauses(vacuous) ==
    lkIdx = 1 =>
        LET dis == ClauseSays(SelectTuples(LkRecords[1], "disallow"), lkPath, lkTitle, vacuous)
            per == IF SelectTuples(LkRecords[1], "permit") = <<>> THEN "true"
                   ELSE ClauseSays(SelectTuples(LkRecords[1], "permit"), lkPath, lkTitle,
                                   vacuous)
        IN  /\ (lkPc = "fatal") <=> (dis = "fatal" \/ (dis = "false" /\ per = "fatal"))
            /\ (lkPc # "fatal") => ((lkAcc.out # <<>>) <=> (dis = "false" /\ per = "true"))

\* C15 as claimed: a tuple matches exactly when none of its title and path
\* comparisons fails, so also when it has none; a clause matches iff one of
\* its tuples does.
C15_Original == RecordFollowsClauses(TRUE)

\* C15 as amended: a tuple matches exactly when it has at least one title or
\* path comparison and none fails, scanning left to right and stopping at
\* the first failure; a tuple whose attributes all have other names, or that
\* has none, does not match. A clause matches iff one of its tuples does.
C15_TupleMatch == RecordFollowsClauses(FALSE)

\* C15 witness: a record whose only rule is a disallow tuple with an
\* attribute of another name gave its value: the tuple did not match.
C15_Witness ==
    /\ lkPc = "loop" /\ lkIdx = 1
    /\ Tail(LkRecords[1]) = <<OtherName("disallow")>>
    /\ lkAcc.out = <<<<"v">>>>

\* The record's own properties clause holds fuzz.
OwnFuzz(record) ==
    \E t \in 1..Len(record) : TupleName(record[t]) = "properties" /\ TupleHas(record[t], "fuzz")

\* The record is active in the context of the lookup.
Active(record) ==
    /\ DisallowMatch(record, lkPath, lkTitle) = "false"
    /\ PermitMatch(record, lkPath, lkTitle) = "true"

\* C16 as claimed: an iteration sets the fuzz flag only for an active record
\* whose own properties clause holds fuzz, the flag once set stays set, and
\* an active record with values evaluated while no such record has been seen
\* appends all its tokens in declared order.
C16_FuzzFromOwnProperties ==
    [][LkAtRecord =>
          /\ (lkAcc'.fuzz /\ ~lkAcc.fuzz) => (Active(LkNextRecord) /\ OwnFuzz(LkNextRecord))
          /\ lkAcc.fuzz => lkAcc'.fuzz
          /\ (/\ Active(LkNextRecord)
              /\ ~OwnFuzz(LkNextRecord)
              /\ \A k \in 1..lkIdx : ~(Active(LkRecords[k]) /\ OwnFuzz(LkRecords[k]))
              /\ ValueTokens(SelectTuples(LkNextRecord, "values")) # <<>>)
                => lkAcc'.out = lkAcc.out \o ValueTokens(SelectTuples(LkNextRecord, "values"))]_vars

\* What an active record gives: its values tokens in declared order if it
\* declares values, otherwise its primary value if it has one.
Contribution(record) ==
    IF ~Active(record) THEN <<>>
    ELSE IF ValueTokens(SelectTuples(record, "values")) # <<>>
         THEN ValueTokens(SelectTuples(record, "values"))
         ELSE AttrValues(record[1], lkName)

RECURSIVE Contributions(_)
Contributions(records) ==
    IF records = <<>> THEN <<>>
    ELSE Contribution(Head(records)) \o Contributions(Tail(records))

\* C17 as claimed: when no record of the identifier declares fuzz, lookup
\* returns the concatenation, in record order, of what each active record
\* gives.
C17_RecordOrder ==
    (lkPc = "done" /\ \A k \in 1..Len(LkRecords) : ~OwnFuzz(LkRecords[k]))
        => lkRet.values = Contributions(LkRecords)

\* ------------------------------------------------------------------------
\* Claims about generate
\* ------------------------------------------------------------------------

\* The (path, method) pairs the API declares.
AllOps ==
    UNION {{<<p, m>> : m \in 1..Len(api.Paths[p].Methods)} : p \in 1..Len(api.Paths)}
OpPath(op) == api.Paths[op[1]].Path
OpMethod(op) == api.Paths[op[1]].Methods[op[2]]

\* The required path, query and header parameters of an operation, in the
\* order generate looks them up.
RequiredNames(op) ==
    Bucket(OpMethod(op).Parameters, "path") \o Bucket(OpMethod(op).Parameters, "query")
        \o Bucket(OpMethod(op).Parameters, "header")

\* lookup of name finds nothing for the path.
NotFound(name, path) == \E o \in Lookup(db, name, path, api.Title) : o.r = "nothing"

NotFoundAt(op) == {k \in 1..Len(RequiredNames(op)) : NotFound(RequiredNames(op)[k], OpPath(op))}
HasNotFound(op) == NotFoundAt(op) # {}
FirstNotFound(op) ==
    RequiredNames(op)[CHOOSE k \in NotFoundAt(op) : \A j \in NotFoundAt(op) : k <= j]
PathNotFound(op) ==
    \E k \in NotFoundAt(op) : k <= Len(Bucket(OpMethod(op).Parameters, "path"))

RequestOps == {requests[k].op : k \in 1..Len(requests)}
EndedAs(kind) == {op \in DOMAIN ended : ended[op].k = kind}

RECURSIVE SumOver(_, _)
SumOver(m, keys) ==
    IF keys = {} THEN 0
    ELSE LET k == CHOOSE x \in keys : TRUE IN m[k] + SumOver(m, keys \ {k})
SumMissing == SumOver(missing, DOMAIN missing)

\* A non-strict call on an API with a server has returned.
LenientReturn == ~flags.strict /\ gPc = "done" /\ Len(api.Servers) >= 1

\* What C4 says of every operation but those with an unresolved parameter.
C4_Accounting ==
    /\ ~gErr
    /\ DOMAIN ended = AllOps
    /\ \A op \in AllOps :
          /\ Cardinality({k \in 1..Len(requests) : requests[k].op = op})
                = (IF ended[op].k = "request" THEN 1 ELSE 0)
          /\ ~HasNotFound(op) => ended[op].k \in {"request", "failed"}
    /\ \A n \in DOMAIN missing :
          missing[n] = Cardinality({op \in EndedAs("miss") : ended[op].name = n})
    /\ \A op \in EndedAs("miss") : ended[op].name \in DOMAIN missing
    /\ Len(requests) + SumMissing + Cardinality(EndedAs("failed")) = totalPossible

\* C4 as claimed: in non-strict mode generate returns no error when a server
\* is configured, every operation with an unresolved required parameter is
\* left out and counted once in missing, under the first parameter that
\* misses, every other operation is unaffected, and requests, misses and
\* assembly failures add up to totalPossible.
C4_Original ==
    LenientReturn =>
        /\ C4_Accounting
        /\ \A op \in AllOps :
              HasNotFound(op) => ended[op] = [k |-> "miss", name |-> FirstNotFound(op)]

\* C4 as amended: an operation with an unresolved required parameter is left
\* out, and counted once in missing under the first parameter that misses
\* unless its path parameters resolve and http.NewRequest fails, which makes
\* it an assembly failure with no count in missing.
C4_EveryOperationOnce ==
    LenientReturn =>
        /\ C4_Accounting
        /\ \A op \in AllOps :
              HasNotFound(op) =>
                 \/ ended[op] = [k |-> "miss", name |-> FirstNotFound(op)]
                 \/ (ended[op].k = "failed" /\ ~PathNotFound(op))

\* C4 witness: a non-strict run returned a request, counted one miss for an
\* operation and dropped, as an assembly failure, an operation one of whose
\* query parameters finds nothing.
C4_Witness ==
    /\ LenientReturn
    /\ Len(requests) >= 1
    /\ EndedAs("miss") # {}
    /\ \E op \in EndedAs("failed") : HasNotFound(op)

\* C5: in strict mode, when a required path, query or header parameter of
\* some operation finds nothing, generate returns an error with nil requests,
\* nil missing and a count of 0, however many requests were built before.
C5_StrictNoPartialOutput ==
    (flags.strict /\ gPc = "done" /\ \E op \in AllOps : HasNotFound(op))
        => (gErr /\ requests = <<>> /\ missing = EmptyMap /\ totalPossible = 0)

\* C5 witness: a strict run built a request for one operation and then
\* returned the error of a parameter of another that found nothing.
C5_Witness ==
    /\ flags.strict /\ gPc = "done" /\ gErr
    /\ EndedAs("request") # {}
    /\ \E op \in EndedAs("error") : HasNotFound(op) /\ ended[op].name = FirstNotFound(op)
    /\ requests = <<>>

\* C6 as claimed: the requests generate returns are in declaration order,
\* by path and then by method.
C6_DeclarationOrder ==
    (gPc = "done" /\ ~gErr) =>
        \A x, y \in 1..Len(requests) :
            x < y => \/ requests[x].op[1] < requests[y].op[1]
                     \/ (requests[x].op[1] = requests[y].op[1]
                            /\ requests[x].op[2] < requests[y].op[2])

\* C8: when generate returns without error, len(requests) <= totalPossible,
\* with equality exactly when no lookup of a required parameter found nothing
\* and no http.NewRequest failed.
C8_Coverage ==
    (gPc = "done" /\ ~gErr) =>
        /\ Len(requests) <= totalPossible
        /\ (Len(requests) = totalPossible)
              <=> (EndedAs("miss") = {} /\ EndedAs("failed") = {})

\* C8 witness: a run returned fewer requests than operations because of one
\* assembly failure alone.
C8_Witness ==
    /\ gPc = "done" /\ ~gErr
    /\ EndedAs("miss") = {}
    /\ Cardinality(EndedAs("failed")) = 1
    /\ Len(requests) >= 1
    /\ Len(requests) = totalPossible - 1

\* C9: when generate returns without error, totalPossible is the number of
\* (path, method) pairs declared, whatever became of each.
C9_TotalIsDeclared ==
    (gPc = "done" /\ ~gErr) => totalPossible = Cardinality(AllOps)

\* C9 witness: a run in which one operation was skipped for a miss, one
\* failed assembly and one produced a request returned a count of 3.
C9_Witness ==
    /\ gPc = "done" /\ ~gErr
    /\ EndedAs("miss") # {} /\ EndedAs("failed") # {} /\ EndedAs("request") # {}
    /\ totalPossible = 3

\* C13 as claimed: under -noauth no request generate has built carries an
\* Authorization or a Cookie header, whatever the database and the API hold.
C13_NoAuthStripsHeaders ==
    flags.noAuth =>
        \A k \in 1..Len(requests) :
            DOMAIN requests[k].HTTP.Header \cap {"Authorization", "Cookie"} = {}

\* sub occurs in s.
Contains(s, sub) == \E i \in 1..Len(s) : HasPrefixAt(s, sub, i)

\* lookup of name for the path returns something, or fuzzing with values.
FoundOrFuzz(name, path) ==
    \E o \in Lookup(db, name, path, api.Title) :
        o.r \in {"something", "fuzzing"} /\ o.values # <<>>

\* C18 as claimed: no request holds the {name} token of a required path
\* parameter of its operation whose lookup returned something, or fuzzing
\* with a value.
C18_PathTokensReplaced ==
    \A k \in 1..Len(requests) :
        LET names == Bucket(OpMethod(requests[k].op).Parameters, "path") IN
        \A n \in 1..Len(names) :
            FoundOrFuzz(names[n], OpPath(requests[k].op))
                => ~Contains(requests[k].HTTP.URL, ApiForm(names[n]))

\* The method a request refers to: what the loop variable of its path holds.
MethodOf(request) == api.Paths[request.Method].Methods[methodVar[request.Method]]

\* C19 as claimed: the method every request refers to is the one it was
\* built from, with its HTTP method and its declared responses, also after
\* later methods of the same path were processed.
C19_BackReference ==
    \A k \in 1..Len(requests) :
        /\ MethodOf(requests[k]).HTTPMethod = OpMethod(requests[k].op).HTTPMethod
        /\ MethodOf(requests[k]).Responses = OpMethod(requests[k].op).Responses

\* The entry of a name in missing; 0 without one.
Missed(name) == IF name \in DOMAIN missing THEN missing[name] ELSE 0

\* Every name missing can hold a count for.
CountedNames ==
    DOMAIN missing \cup UNION {{RequiredNames(op)[k] : k \in 1..Len(RequiredNames(op))} :
                                  op \in AllOps}

\* The path parameters of the operation resolve and http.NewRequest fails.
AssemblyFails(op) ==
    \E ps \in Resolve(db, Bucket(OpMethod(op).Parameters, "path"), OpPath(op), api.Title, <<>>) :
        /\ ps.k = "ok"
        /\ NewRequestFails(Substitute(flags.proto \o api.Servers[1] \o OpPath(op), ps.found))

\* C20 as claimed: after a non-strict run missing[p] is the number of
\* operations that require p and for which p finds nothing, other required
\* parameters finding nothing or not.
C20_Original ==
    LenientReturn =>
        \A p \in CountedNames :
            Missed(p) = Cardinality({op \in AllOps :
                            \E k \in NotFoundAt(op) : RequiredNames(op)[k] = p})

\* C20 as amended: after a non-strict run missing[p] is the number of
\* operations for which p is the first required parameter, in the order
\* path, query, header, that finds nothing, leaving out the operations whose
\* path parameters resolve and whose request cannot be assembled.
C20_FirstMissCounted ==
    LenientReturn =>
        \A p \in CountedNames :
            Missed(p) = Cardinality({op \in AllOps :
                            /\ HasNotFound(op)
                            /\ FirstNotFound(op) = p
                            /\ (PathNotFound(op) \/ ~AssemblyFails(op))})

\* C20 witness: a non-strict run returned with an operation two of whose
\* required parameters find nothing: the first is counted, the second has
\* no entry.
C20_Witness ==
    /\ LenientReturn
    /\ \E op \in AllOps : \E j, k \in NotFoundAt(op) :
          /\ RequiredNames(op)[j] # RequiredNames(op)[k]
          /\ FirstNotFound(op) = RequiredNames(op)[j]
          /\ Missed(RequiredNames(op)[j]) >= 1
          /\ RequiredNames(op)[k] \notin DOMAIN missing

\* The property called name of a schema of the API is a string of format
\* date-time.
DateTimeProperty(name) ==
    \E t \in api.Schemas : \E property \in t.Properties :
        property.Name = name /\ property.Type = "string" /\ property.Format = "date-time"

\* lookup of name for the path returns nothing or fuzzing.
NothingOrFuzz(name, path) ==
    \E o \in Lookup(db, name, path, api.Title) : o.r \in {"nothing", "fuzzing"}

\* C21 as claimed: in every body built, a string property of format
\* date-time whose lookup returns nothing or fuzzing has the placeholder
\* date as its value.
C21_DateTimePlaceholder ==
    \A k \in 1..Len(requests) :
        requests[k].HTTP.Body # NoBody =>
            LET members == requests[k].HTTP.Body.object IN
            \A j \in 1..Len(members) :
                (/\ DateTimeProperty(members[j][1])
                 /\ NothingOrFuzz(members[j][1], OpPath(requests[k].op)))
                    => members[j][2] = DatePlaceholder

\* C22 as claimed: when a non-strict run with replay yields no request, the
\* caller still writes its result, with two empty buckets; printJSON and
\* printADO do not read the first element of the empty sequence.
C22_EmptyRunEmitsResult ==
    (gPc = "done" /\ ~gErr /\ requests = <<>> /\ output.kind # "none")
        => (output.kind \in {"json", "ado"} /\ output.sus = <<>> /\ output.ok = <<>>)

\* No record of the database declares the fuzz property.
NoFuzz ==
    \A r \in 1..Len(db) : \A t \in 1..Len(db[r]) :
        ~(TupleName(db[r][t]) = "properties" /\ TupleHas(db[r][t], "fuzz"))

\* C7 as claimed: two calls of generate on the same api and db, no
\* identifier with fuzz, return the same sequence of requests.
C7_Idempotent ==
    (run = MaxRuns /\ gPc = "done" /\ ~gErr /\ NoFuzz)
        => HTTPRequests(requests) = prevRequests

\* ------------------------------------------------------------------------
\* Claims about validate
\* ------------------------------------------------------------------------

\* The entries of a bucket for one request.
Entries(bucket, request) == {k \in 1..Len(bucket) : bucket[k].Request = request}

\* C10: when validate returns without error, every pair has, for each code
\* declared on its Method, one entry: in sus if the status equals the code,
\* in ok otherwise; the entry holds the request and its response.
C10_OneEntryPerCode ==
    (vPc = "done" /\ ~vErr) =>
        /\ \A request \in DOMAIN results :
              LET codes == results[request].Responses
                  status == results[request].StatusCode
              IN  /\ Cardinality(Entries(sus, request))
                        = Cardinality({c \in codes : Atoi(c).n = status})
                  /\ Cardinality(Entries(ok, request))
                        = Cardinality({c \in codes : Atoi(c).n # status})
        /\ \A k \in 1..Len(sus) : sus[k].Response = results[sus[k].Request].StatusCode
        /\ \A k \in 1..Len(ok) : ok[k].Response = results[ok[k].Request].StatusCode

\* C10 witness: of two pairs on methods declaring 200 and 404, the one with
\* status 200 is once in sus and once in ok, the one with status 403 is
\* twice in ok and not in sus.
C10_Witness ==
    /\ vPc = "done" /\ ~vErr
    /\ \E a, b \in DOMAIN results :
          /\ results[a] = [Responses |-> {Code200, Code404}, StatusCode |-> 200]
          /\ results[b] = [Responses |-> {Code200, Code404}, StatusCode |-> 403]
          /\ Cardinality(Entries(sus, a)) = 1 /\ Cardinality(Entries(ok, a)) = 1
          /\ Cardinality(Entries(sus, b)) = 0 /\ Cardinality(Entries(ok, b)) = 2

\* C11 as claimed: when a declared code does not parse, validate returns an
\* error with both buckets empty and the caller, main as well as genHandler,
\* writes no result.
C11_ErrorAbortsOutput ==
    vErr => /\ sus = <<>> /\ ok = <<>>
            /\ output.kind \in {"none", "error"}

=============================================================================
